---- MODULE Spec2Model ----
(***************************************************************************)
(* Model of CUTE/CUTE_VDE_ex.ipynb: the notebook that drives a TokaMaker   *)
(* instance (mygs) through an initial equilibrium and a beta_p scan with   *)
(* linear (eig_td) and nonlinear (setup_td / step_td) stability runs.      *)
(*                                                                         *)
(* The notebook is the only code of the repository.  TokaMaker itself is   *)
(* imported from the OpenFUSIONToolkit package (lines 74-77); what its     *)
(* methods return is therefore an input of this model, drawn from small    *)
(* sets, and the state kept for the instance is the history of the calls   *)
(* the notebook makes on it: which call last wrote psi, which argument the *)
(* last set_isoflux / set_saddles / set_targets received, which setup      *)
(* calls have run.  Cells run top to bottom, one call per step.            *)
(***************************************************************************)
EXTENDS Integers, Sequences, FiniteSets, TLC

(* ---- program constants ------------------------------------------------ *)
NBeta == 10     \* np.linspace(0.01,0.8,10): number of scan points
NSolve == 4     \* range(4): solves per scan point
NStep == 30     \* range(30): time steps per scan point

(* ---- bounds of the values the library hands back ---------------------- *)
\* The repository does not hold the code that computes them, so every value
\* the notebook tests is kept: both outcomes of  assert nretry >= 0  and both
\* readings of err_flag (cell "Compute initial equilibrium": zero = converged).
MaxTime == 2    \* step_td's returned time is one of 0..MaxTime
MaxRetry == 1   \* step_td's returned retry count is one of -1..MaxRetry

TimeVals == 0 .. MaxTime
RetryVals == -1 .. MaxRetry
ErrFlags == {0, 1}

VARIABLES
    pc,         \* the call the notebook makes next
    configured, \* setup calls made on mygs so far
    psi,        \* the call that last wrote psi: undef, init_psi, solve, set_psi, step_td
    isoflux,    \* argument of the last set_isoflux: unset, pts, none
    saddles,    \* argument of the last set_saddles: unset, pts, none
    targets,    \* Ip_ratio passed by the last set_targets: unset, one, init, scan
    err_flag,   \* value returned by the last solve() (-1: no solve yet)
    td,         \* TRUE once setup_td has been called on mygs
    ibeta,      \* scan points started (index of beta_target, 1-based)
    i,          \* solves done for the current scan point
    istep,      \* time steps done for the current scan point
    sim_time,   \* the notebook's sim_time
    nretry,     \* the notebook's nretry (last step_td)
    have_psi0,  \* psi0 = get_psi(False) has been assigned
    ngrowth,    \* len(growth) = len(modes)
    nbeta_p,    \* len(beta_p)
    nz0,        \* len(z0)
    nresults,   \* len(results)
    nzhist      \* len(zhist)

vars == << pc, configured, psi, isoflux, saddles, targets, err_flag, td, ibeta, i,
           istep, sim_time, nretry, have_psi0, ngrowth, nbeta_p, nz0, nresults, nzhist >>

engine == << configured, psi, isoflux, saddles, targets, err_flag, td >>
loops == << ibeta, i, istep >>
locals == << sim_time, nretry, have_psi0, ngrowth, nbeta_p, nz0, nresults, nzhist >>

Goto(from, to) == pc = from /\ pc' = to

(* ---- state after  mygs = TokaMaker(myOFT) ----------------------------- *)
Init ==
    /\ pc = "setup_mesh"
    /\ configured = {}
    /\ psi = "undef"
    /\ isoflux = "unset"
    /\ saddles = "unset"
    /\ targets = "unset"
    /\ err_flag = -1
    /\ td = FALSE
    /\ ibeta = 0
    /\ i = 0
    /\ istep = 0
    /\ sim_time = 0
    /\ nretry = 0
    /\ have_psi0 = FALSE
    /\ ngrowth = 0
    /\ nbeta_p = 0
    /\ nz0 = 0
    /\ nresults = 0
    /\ nzhist = 0

(* ---- the calls, by what the notebook passes and keeps ----------------- *)
Configure(name, from, to) ==
    /\ Goto(from, to)
    /\ configured' = configured \cup {name}
    /\ UNCHANGED << psi, isoflux, saddles, targets, err_flag, td, loops, locals >>

set_targets(ratio, from, to) ==
    /\ Goto(from, to)
    /\ targets' = ratio
    /\ UNCHANGED << configured, psi, isoflux, saddles, err_flag, td, loops, locals >>

set_saddles(arg, from, to) ==
    /\ Goto(from, to)
    /\ saddles' = arg
    /\ UNCHANGED << configured, psi, isoflux, targets, err_flag, td, loops, locals >>

set_isoflux(arg, from, to) ==
    /\ Goto(from, to)
    /\ isoflux' = arg
    /\ UNCHANGED << configured, psi, saddles, targets, err_flag, td, loops, locals >>

init_psi(from, to) ==
    /\ Goto(from, to)
    /\ psi' = "init_psi"
    /\ UNCHANGED << configured, isoflux, saddles, targets, err_flag, td, loops, locals >>

(* ---- cells 4-9: setup -------------------------------------------------- *)
c4_setup_mesh == Configure("setup_mesh", "setup_mesh", "setup_regions")
c4_setup_regions == Configure("setup_regions", "setup_regions", "setup")
c4_setup == Configure("setup", "setup", "set_coil_bounds")
c5_set_coil_bounds == Configure("set_coil_bounds", "set_coil_bounds", "set_coil_reg")
c6_set_coil_reg == Configure("set_coil_reg", "set_coil_reg", "set_profiles")
c7_set_profiles == Configure("set_profiles", "set_profiles", "c8_set_targets")
c8_set_targets == set_targets("one", "c8_set_targets", "c9_set_saddles")
c9_set_saddles == set_saddles("pts", "c9_set_saddles", "c9_set_isoflux")
c9_set_isoflux == set_isoflux("pts", "c9_set_isoflux", "c10_set_targets")

(* ---- cell 10: initial equilibrium -------------------------------------- *)
c10_set_targets == set_targets("init", "c10_set_targets", "c10_set_saddles")
c10_set_saddles == set_saddles("pts", "c10_set_saddles", "c10_set_isoflux")
c10_set_isoflux == set_isoflux("pts", "c10_set_isoflux", "c10_init_psi")
c10_init_psi == init_psi("c10_init_psi", "c10_solve")

c10_solve ==
    /\ Goto("c10_solve", "update_settings")
    /\ psi' = "solve"
    /\ err_flag' \in ErrFlags
    /\ UNCHANGED << configured, isoflux, saddles, targets, td, loops, locals >>

c12_update_settings == Configure("update_settings", "update_settings", "scan_head")

(* ---- cell 13: the beta_p scan ------------------------------------------ *)
\* for beta_target in np.linspace(0.01,0.8,10)
scan_head ==
    /\ pc = "scan_head"
    /\ IF ibeta < NBeta
         THEN ibeta' = ibeta + 1 /\ pc' = "scan_set_saddles"
         ELSE ibeta' = ibeta /\ pc' = "plots"
    /\ UNCHANGED << engine, i, istep, locals >>

scan_set_saddles == set_saddles("pts", "scan_set_saddles", "scan_set_isoflux")
scan_set_isoflux == set_isoflux("pts", "scan_set_isoflux", "scan_init_psi")

\* line 496 left out: the solves start from whatever psi the last run left
scan_init_psi_skipped ==
    /\ Goto("scan_init_psi", "scan_set_targets")
    /\ i' = 0
    /\ UNCHANGED << engine, ibeta, istep, locals >>

\* init_psi, then beta_approx = beta_target*beta_scale and entry of range(4)
scan_init_psi ==
    /\ Goto("scan_init_psi", "scan_set_targets")
    /\ psi' = "init_psi"
    /\ i' = 0
    /\ UNCHANGED << configured, isoflux, saddles, targets, err_flag, td, ibeta, istep, locals >>

scan_set_targets == set_targets("scan", "scan_set_targets", "scan_solve")

\* mygs.solve(): the returned err_flag is not read by the notebook
scan_solve ==
    /\ Goto("scan_solve", "scan_get_stats")
    /\ psi' = "solve"
    /\ err_flag' \in ErrFlags
    /\ UNCHANGED << configured, isoflux, saddles, targets, td, loops, locals >>

\* beta_approx *= beta_target/mygs.get_stats()['beta_pol']*100.0, next i
scan_get_stats ==
    /\ pc = "scan_get_stats"
    /\ i' = i + 1
    /\ pc' = IF i + 1 < NSolve THEN "scan_set_targets" ELSE "scan_beta_p"
    /\ UNCHANGED << engine, ibeta, istep, locals >>

\* beta_scale = ...; beta_p.append(mygs.get_stats()['beta_pol'])
scan_beta_p ==
    /\ Goto("scan_beta_p", "scan_get_psi")
    /\ nbeta_p' = nbeta_p + 1
    /\ UNCHANGED << engine, loops, sim_time, nretry, have_psi0, ngrowth, nz0, nresults, nzhist >>

\* psi0 = mygs.get_psi(False)
scan_get_psi ==
    /\ Goto("scan_get_psi", "scan_eig_td")
    /\ have_psi0' = TRUE
    /\ UNCHANGED << engine, loops, sim_time, nretry, ngrowth, nbeta_p, nz0, nresults, nzhist >>

\* eig_vals, eig_vecs = mygs.eig_td(-1.E5,10,False); modes.append; growth.append
scan_eig_td ==
    /\ Goto("scan_eig_td", "scan_set_psi")
    /\ ngrowth' = ngrowth + 1
    /\ UNCHANGED << engine, loops, sim_time, nretry, have_psi0, nbeta_p, nz0, nresults, nzhist >>

\* psi_ic = psi0 - 0.01*eig_vecs[0,:]*...; mygs.set_psi(psi_ic)
scan_set_psi ==
    /\ Goto("scan_set_psi", "scan_set_saddles_none")
    /\ have_psi0
    /\ psi' = "set_psi"
    /\ UNCHANGED << configured, isoflux, saddles, targets, err_flag, td, loops, locals >>

scan_set_saddles_none == set_saddles("none", "scan_set_saddles_none", "scan_set_isoflux_none")

\* the call of line 515 made with the points of line 495 instead of None
scan_set_isoflux_keeps_pts == set_isoflux("pts", "scan_set_isoflux_none", "scan_setup_td")

scan_set_isoflux_none == set_isoflux("none", "scan_set_isoflux_none", "scan_setup_td")

\* dt = 0.2/abs(eig_vals[0,0]); setup_td; sim_time = 0.0; results = []; z0 = [[..]]
scan_setup_td ==
    /\ Goto("scan_setup_td", "scan_step_td")
    /\ td' = TRUE
    /\ sim_time' = 0
    /\ nresults' = 0
    /\ nz0' = 1
    /\ istep' = 0
    /\ UNCHANGED << configured, psi, isoflux, saddles, targets, err_flag, ibeta, i,
                    nretry, have_psi0, ngrowth, nbeta_p, nzhist >>

\* sim_time, _, nl_its, lin_its, nretry = mygs.step_td(sim_time,dt)
scan_step_td ==
    /\ Goto("scan_step_td", "scan_assert")
    /\ td
    /\ psi' = "step_td"
    /\ sim_time' \in TimeVals
    /\ nretry' \in RetryVals
    /\ UNCHANGED << configured, isoflux, saddles, targets, err_flag, td, loops,
                    have_psi0, ngrowth, nbeta_p, nz0, nresults, nzhist >>

\* assert nretry >= 0
scan_assert ==
    /\ pc = "scan_assert"
    /\ pc' = IF nretry >= 0 THEN "scan_record" ELSE "AssertionError"
    /\ UNCHANGED << engine, loops, locals >>

\* z0.append([sim_time,mygs.o_point[1]]); results.append(mygs.get_psi()); next i
scan_record ==
    /\ pc = "scan_record"
    /\ nz0' = nz0 + 1
    /\ nresults' = nresults + 1
    /\ istep' = istep + 1
    /\ pc' = IF istep + 1 < NStep THEN "scan_step_td" ELSE "scan_zhist_append"
    /\ UNCHANGED << engine, ibeta, i, sim_time, nretry, have_psi0, ngrowth, nbeta_p, nzhist >>

\* zhist.append(z0), next beta_target
scan_zhist_append ==
    /\ Goto("scan_zhist_append", "scan_head")
    /\ nzhist' = nzhist + 1
    /\ UNCHANGED << engine, loops, sim_time, nretry, have_psi0, ngrowth, nbeta_p, nz0, nresults >>

(* ---- cells 14-16: plots of growth, modes and zhist --------------------- *)
c14_plots ==
    /\ Goto("plots", "done")
    /\ UNCHANGED << engine, loops, locals >>

Next ==
    \/ c4_setup_mesh \/ c4_setup_regions \/ c4_setup
    \/ c5_set_coil_bounds \/ c6_set_coil_reg \/ c7_set_profiles
    \/ c8_set_targets \/ c9_set_saddles \/ c9_set_isoflux
    \/ c10_set_targets \/ c10_set_saddles \/ c10_set_isoflux
    \/ c10_init_psi \/ c10_solve \/ c12_update_settings
    \/ scan_head \/ scan_set_saddles \/ scan_set_isoflux \/ scan_init_psi
    \/ scan_set_targets \/ scan_solve \/ scan_get_stats \/ scan_beta_p
    \/ scan_get_psi \/ scan_eig_td \/ scan_set_psi
    \/ scan_set_saddles_none \/ scan_set_isoflux_none \/ scan_setup_td
    \/ scan_step_td \/ scan_assert \/ scan_record \/ scan_zhist_append
    \/ c14_plots

Spec == Init /\ [][Next]_vars

TypeOK ==
    /\ psi \in {"undef", "init_psi", "solve", "set_psi", "step_td"}
    /\ isoflux \in {"unset", "pts", "none"}
    /\ saddles \in {"unset", "pts", "none"}
    /\ targets \in {"unset", "one", "init", "scan"}
    /\ err_flag \in ErrFlags \cup {-1}
    /\ td \in BOOLEAN
    /\ ibeta \in 0 .. NBeta
    /\ i \in 0 .. NSolve
    /\ istep \in 0 .. NStep
    /\ sim_time \in TimeVals
    /\ nretry \in RetryVals \cup {0}

(* ---- claims ------------------------------------------------------------ *)
TdRunPcs == {"scan_step_td", "scan_assert", "scan_record"}

\* C10: at every setup_td call psi has been written by solve or set_psi and the
\* last set_isoflux and the last set_saddles both passed None; neither is called
\* with points between setup_td and any step_td of that time-dependent run.
C10_ShapeDisabledForTd ==
    /\ pc = "scan_setup_td" =>
          /\ psi \in {"solve", "set_psi"}
          /\ isoflux = "none"
          /\ saddles = "none"
    /\ pc \in TdRunPcs =>
          /\ td
          /\ isoflux = "none"
          /\ saddles = "none"

\* the last step_td of a scan point whose equilibrium was solved with the
\* shape constraints set again after the previous point's run
C10_Witness ==
    /\ pc = "scan_step_td"
    /\ ibeta = 2
    /\ istep = NStep - 1
    /\ isoflux = "none"
    /\ saddles = "none"

\* C14: at every eig_td call of the scan the most recent solve() returned
\* err_flag = 0 and psi has not been written by init_psi, set_psi or step_td
\* since that solve.
C14_EigTdOnConverged ==
    pc = "scan_eig_td" => (err_flag = 0 /\ psi = "solve")

\* C15: every solve() of the scan runs with the last set_isoflux and the last
\* set_saddles given points and from a psi written by init_psi (first solve of
\* the scan point) or by the preceding solve of the same scan point; it never
\* starts from a psi left by set_psi or step_td.
C15_SolveReinitialised ==
    pc = "scan_solve" =>
        /\ i \in 0 .. NSolve - 1
        /\ isoflux = "pts"
        /\ saddles = "pts"
        /\ psi = (IF i = 0 THEN "init_psi" ELSE "solve")

\* the first solve of the second scan point: the first point's run has
\* disabled the constraints and stepped psi NStep times before it
C15_Witness ==
    /\ pc = "scan_solve"
    /\ ibeta = 2
    /\ i = 0
    /\ td
    /\ nzhist = 1
    /\ nresults = NStep

====
